---- MODULE Spec2Model ----
(***************************************************************************)
(* Model of the MockupAI front end: the App component (mode, image lists,  *)
(* prompt, results, loading flags), its ImageUploader slots, the batch     *)
(* loop of handleGenerate and the archive helper downloadAllAsZip.         *)
(*                                                                         *)
(* Strings the code splits or trims are sequences of tokens: a file name   *)
(* is a sequence such as <<"anna", ".", "png">>, a prompt a sequence in    *)
(* which " " is whitespace and any other token is visible text.            *)
(***************************************************************************)
EXTENDS Integers, Sequences, FiniteSets, TLC

VARIABLES
    mode,           \* App: useState<AppMode>
    models,         \* App: useState<ImageFile[]>
    outfits,        \* App: useState<ImageFile[]>
    baseImage,      \* App: useState<ImageFile[]>
    poster,         \* App: useState<ImageFile[]>
    prompt,         \* App: useState(string)
    results,        \* App: useState<ResultImage[]>
    isLoading,      \* App: useState(boolean)
    loadingMessage, \* App: useState(string)
    uploadedFiles,  \* ImageUploader: useState<ImageFile[]>, one per slot of renderContent
    inflight,       \* the handleGenerate invocations suspended at an await
    outstanding,    \* number of Remote Image Operation calls issued and not settled
    lastRun,        \* record of the handleGenerate invocation that ended last, none during a run
    midRun,         \* number of user actions taken since the run in flight started
    uploader,       \* a stand-alone ImageUploader: its props and its state
    uploaderLog,    \* what has been done to the stand-alone ImageUploader
    objectURLs,     \* the object URLs URL.createObjectURL has made, in order of creation
    zipImages,      \* downloadAllAsZip: the images argument
    zipPc,          \* downloadAllAsZip: "idle" before the call, then "returned", "fetching", "generated"
    fetchStatus,    \* downloadAllAsZip: per image "pending", "response", "added" or "failed"
    zipFiles,       \* the zip.file(name, blob) calls made, in order
    zipObjects,     \* number of `new JSZip()` evaluated
    generateCalls   \* number of zip.generateAsync calls made

appVars == <<mode, models, outfits, baseImage, poster, prompt, results, isLoading,
             loadingMessage, uploadedFiles, inflight, outstanding, lastRun>>
runVars == <<appVars, midRun>>
uploaderVars == <<uploader, uploaderLog, objectURLs>>
zipVars == <<zipImages, zipPc, fetchStatus, zipFiles, zipObjects, generateCalls>>
vars == <<runVars, uploaderVars, zipVars>>

----------------------------------------------------------------------------
(* Bounds of the model *)

\* longest image list a slot is filled to
MaxFiles == 2
\* most files in one drop / one file-dialog selection
MaxBatch == 2
\* most user actions taken while one run is in flight
MaxMidRun == 1

\* most image files handed to a stand-alone ImageUploader over its life
MaxAdded == 4
\* longest result list handed to downloadAllAsZip
MaxZip == 2

----------------------------------------------------------------------------
(* types.ts *)

OneModelNOutfits == "1 Model : N Outfits"
NModelsOneOutfit == "N Models : 1 Outfit"
Editor == "AI Image Editor"
Generator == "AI Image Generator"
PosterPlacement == "Poster Placement"

AppMode == {OneModelNOutfits, NModelsOneOutfit, Editor, Generator, PosterPlacement}

\* The browser File objects the user can pick: name and MIME type.
Files ==
    { [name |-> <<"anna", ".", "png">>, type |-> "image/png"],
      [name |-> <<"bo", ".", "v2", ".", "jpg">>, type |-> "image/jpeg"],
      [name |-> <<"notes", ".", "txt">>, type |-> "text/plain"] }

\* { file, preview, name }: the preview handle is derived from the file.
ImageFile(f) == [file |-> f, name |-> f.name]

\* What models[0] evaluates to on an empty array.
Undefined == [file |-> [name |-> <<"undefined">>, type |-> "undefined"], name |-> <<"undefined">>]
\* Placeholder for a parameter the called service function does not have.
NoArg == [file |-> [name |-> <<"none">>, type |-> "none"], name |-> <<"none">>]

ResultImage(s, n) == [src |-> s, name |-> n]

\* The display handles a Remote Image Operation may resolve with.
Srcs == {"data:image/png;base64,AAA"}

----------------------------------------------------------------------------
(* String helpers *)

\* file.type.startsWith('image/')
StartsWithImage(type) == type \in {"image/png", "image/jpeg"}

\* Index of the first "." of a name, Len + 1 when it has none.
FirstDot(name) ==
    IF \E i \in 1..Len(name) : name[i] = "."
    THEN CHOOSE i \in 1..Len(name) : name[i] = "." /\ \A j \in 1..(i - 1) : name[j] # "."
    ELSE Len(name) + 1

\* Mutant of Stem: cuts the extension only, at the last "." instead of the first.
StemAtLastDot(name) ==
    IF \E i \in 1..Len(name) : name[i] = "."
    THEN LET last == CHOOSE i \in 1..Len(name) :
                         name[i] = "." /\ \A j \in (i + 1)..Len(name) : name[j] # "."
         IN  SubSeq(name, 1, last - 1)
    ELSE name

\* name.split('.')[0]
Stem(name) == SubSeq(name, 1, FirstDot(name) - 1)

RECURSIVE TrimStart(_)
TrimStart(s) == IF s # <<>> /\ Head(s) = " " THEN TrimStart(Tail(s)) ELSE s

RECURSIVE TrimEnd(_)
TrimEnd(s) ==
    IF s # <<>> /\ s[Len(s)] = " " THEN TrimEnd(SubSeq(s, 1, Len(s) - 1)) ELSE s

\* prompt.trim()
Trim(s) == TrimEnd(TrimStart(s))

\* array[0]
First(arr) == IF Len(arr) > 0 THEN arr[1] ELSE Undefined

----------------------------------------------------------------------------
(* ImageUploader *)

Slots == {"models", "outfits", "baseImage", "poster"}

\* renderContent: the ImageUploader elements mounted in each mode.
Mounted(m) ==
    CASE m = OneModelNOutfits -> {"models", "outfits"}
      [] m = NModelsOneOutfit -> {"models", "outfits"}
      [] m = Editor -> {"baseImage"}
      [] m = PosterPlacement -> {"poster"}
      [] OTHER -> {}

\* renderContent: the `multiple` prop each element is given.
Multiple(m, slot) ==
    \/ m = OneModelNOutfits /\ slot = "outfits"
    \/ m = NModelsOneOutfit /\ slot = "models"
    \/ m = PosterPlacement /\ slot = "poster"

\* renderContent passes no `limit` prop: it is undefined, which `limit && ...` reads as 0.
Limit(m, slot) == 0

\* Array.from(files).filter(image type).map(to ImageFile)
NewImageFiles(files) ==
    LET kept == SelectSeq(files, LAMBDA f : StartsWithImage(f.type))
    IN  [i \in 1..Len(kept) |-> ImageFile(kept[i])]

\* Mutant of UpdatedFiles: over the limit, the oldest `limit` files are kept.
UpdatedFilesKeepsOldest(uploaded, newImageFiles, multiple, limit) ==
    IF multiple
    THEN LET all == uploaded \o newImageFiles
         IN  IF limit # 0 /\ Len(all) > limit THEN SubSeq(all, 1, limit) ELSE all
    ELSE SubSeq(newImageFiles, Len(newImageFiles), Len(newImageFiles))

\* Mutant of UpdatedFiles: a single-select slot takes the first new file.
UpdatedFilesTakesFirst(uploaded, newImageFiles, multiple, limit) ==
    IF multiple
    THEN LET all == uploaded \o newImageFiles
         IN  IF limit # 0 /\ Len(all) > limit
             THEN SubSeq(all, Len(all) - limit + 1, Len(all))
             ELSE all
    ELSE SubSeq(newImageFiles, 1, 1)

\* handleFiles: updatedFiles, for a non-empty newImageFiles
UpdatedFiles(uploaded, newImageFiles, multiple, limit) ==
    IF multiple
    THEN LET all == uploaded \o newImageFiles
         IN  IF limit # 0 /\ Len(all) > limit
             THEN SubSeq(all, Len(all) - limit + 1, Len(all))
             ELSE all
    ELSE SubSeq(newImageFiles, Len(newImageFiles), Len(newImageFiles))

\* removeFile: uploadedFiles.filter(f => f.name !== fileName)
WithoutName(uploaded, fileName) == SelectSeq(uploaded, LAMBDA f : f.name # fileName)

\* preview: URL.createObjectURL(file), once for every image file of the batch. An object
\* URL stays live until URL.revokeObjectURL is called on it.
CreateObjectURLs(store, newImageFiles) ==
    store \o [j \in 1..Len(newImageFiles) |-> [blob |-> newImageFiles[j].file, live |-> TRUE]]

\* The previews of the entries of newImageFiles: the object URLs just made for them.
NewPreviews(store, newImageFiles) == [j \in 1..Len(newImageFiles) |-> Len(store) + j]

\* The previews of the entries removeFile keeps.
RECURSIVE PreviewsWithoutName(_, _, _)
PreviewsWithoutName(uploaded, previews, fileName) ==
    IF uploaded = <<>> THEN <<>>
    ELSE (IF Head(uploaded).name # fileName THEN <<Head(previews)>> ELSE <<>>)
             \o PreviewsWithoutName(Tail(uploaded), Tail(previews), fileName)

\* The batches of files one drop or one file dialog can deliver.
RECURSIVE SeqsUpTo(_, _)
SeqsUpTo(S, n) ==
    IF n = 0 THEN {<<>>}
    ELSE LET shorter == SeqsUpTo(S, n - 1)
         IN  shorter \cup {Append(s, x) : s \in shorter, x \in S}

Batches == SeqsUpTo(Files, MaxBatch)

\* onFilesChange of a slot: setModels, setOutfits, setBaseImage or setPoster.
OnFilesChange(slot, files) ==
    /\ models' = IF slot = "models" THEN files ELSE models
    /\ outfits' = IF slot = "outfits" THEN files ELSE outfits
    /\ baseImage' = IF slot = "baseImage" THEN files ELSE baseImage
    /\ poster' = IF slot = "poster" THEN files ELSE poster

\* ImageUploader.handleFiles of a mounted slot, on a drop or a file-dialog change.
\* A null FileList or a batch without images returns before any state is set.
HandleFiles(slot, files) ==
    LET newImageFiles == NewImageFiles(files)
        updatedFiles == UpdatedFiles(uploadedFiles[slot], newImageFiles,
                                     Multiple(mode, slot), Limit(mode, slot))
    IN  /\ slot \in Mounted(mode)
        /\ Len(newImageFiles) # 0
        /\ Len(updatedFiles) <= MaxFiles
        /\ uploadedFiles' = [uploadedFiles EXCEPT ![slot] = updatedFiles]
        /\ OnFilesChange(slot, updatedFiles)
        /\ UNCHANGED <<mode, prompt, results, isLoading, loadingMessage,
                       inflight, outstanding, lastRun>>

\* ImageUploader.removeFile, from the X button of a listed file.
RemoveFile(slot, fileName) ==
    LET newFiles == WithoutName(uploadedFiles[slot], fileName)
    IN  /\ slot \in Mounted(mode)
        /\ \E i \in 1..Len(uploadedFiles[slot]) : uploadedFiles[slot][i].name = fileName
        /\ uploadedFiles' = [uploadedFiles EXCEPT ![slot] = newFiles]
        /\ OnFilesChange(slot, newFiles)
        /\ UNCHANGED <<mode, prompt, results, isLoading, loadingMessage,
                       inflight, outstanding, lastRun>>

----------------------------------------------------------------------------
(* App *)

DefaultTryOnPrompt == <<"Create a photorealistic image of the model wearing the outfit.">>

\* handleModeChange: the prompt each mode is reset to.
DefaultPrompt(m) ==
    CASE m = Editor -> <<"Add a retro filter to this image.">>
      [] m = Generator -> <<"A vibrant, photorealistic image of a futuristic city at sunset.">>
      [] m = PosterPlacement -> <<"Place this poster on a wall in a cozy bedroom, next to the bed.">>
      [] OTHER -> DefaultTryOnPrompt

\* What the user can type into the prompt textarea.
PromptInputs == {<<" ">>, <<"hi", " ">>}

\* textarea onChange: setPrompt(e.target.value)
SetPrompt(p) ==
    /\ prompt' = p
    /\ UNCHANGED <<mode, models, outfits, baseImage, poster, results, isLoading,
                   loadingMessage, uploadedFiles, inflight, outstanding, lastRun>>

\* An ImageUploader keeps its state while it stays mounted at the same place of the
\* tree, and starts empty when it is mounted.
UploadersAfter(old, new) ==
    IF old = new THEN uploadedFiles ELSE [s \in Slots |-> <<>>]

handleModeChange(newMode) ==
    /\ mode' = newMode
    /\ results' = <<>>
    /\ models' = <<>>
    /\ outfits' = <<>>
    /\ baseImage' = <<>>
    /\ poster' = <<>>
    /\ prompt' = DefaultPrompt(newMode)
    /\ uploadedFiles' = UploadersAfter(mode, newMode)
    /\ UNCHANGED <<isLoading, loadingMessage, inflight, outstanding, lastRun>>

\* Mutant of isGenerateButtonDisabled: the isLoading test is missing.
isGenerateButtonDisabledIgnoresLoading ==
    CASE mode = OneModelNOutfits -> Len(models) = 0 \/ Len(outfits) = 0
      [] mode = NModelsOneOutfit -> Len(models) = 0 \/ Len(outfits) = 0
      [] mode = Editor -> Len(baseImage) = 0 \/ Trim(prompt) = <<>>
      [] mode = Generator -> Trim(prompt) = <<>>
      [] mode = PosterPlacement -> Len(poster) = 0 \/ Trim(prompt) = <<>>
      [] OTHER -> TRUE

\* Mutant of isGenerateButtonDisabled: the many-to-one case tests the models only.
isGenerateButtonDisabledModelsOnly ==
    IF isLoading THEN TRUE
    ELSE CASE mode = OneModelNOutfits -> Len(models) = 0 \/ Len(outfits) = 0
           [] mode = NModelsOneOutfit -> Len(models) = 0
           [] mode = Editor -> Len(baseImage) = 0 \/ Trim(prompt) = <<>>
           [] mode = Generator -> Trim(prompt) = <<>>
           [] mode = PosterPlacement -> Len(poster) = 0 \/ Trim(prompt) = <<>>
           [] OTHER -> TRUE

isGenerateButtonDisabled ==
    IF isLoading THEN TRUE
    ELSE CASE mode = OneModelNOutfits -> Len(models) = 0 \/ Len(outfits) = 0
           [] mode = NModelsOneOutfit -> Len(models) = 0 \/ Len(outfits) = 0
           [] mode = Editor -> Len(baseImage) = 0 \/ Trim(prompt) = <<>>
           [] mode = Generator -> Trim(prompt) = <<>>
           [] mode = PosterPlacement -> Len(poster) = 0 \/ Trim(prompt) = <<>>
           [] OTHER -> TRUE

----------------------------------------------------------------------------
(* handleGenerate *)

\* isBatchMode
IsBatchMode(m) == m \in {OneModelNOutfits, NModelsOneOutfit, PosterPlacement}

\* The state a handleGenerate closure reads: the values of the render it was made in.
Closure ==
    [mode |-> mode, models |-> models, outfits |-> outfits, baseImage |-> baseImage,
     poster |-> poster, prompt |-> prompt, generatedResults |-> <<>>, calls |-> <<>>]

\* The array the for-of loop of a batch branch iterates over.
Units(r) ==
    CASE r.mode = OneModelNOutfits -> r.outfits
      [] r.mode = NModelsOneOutfit -> r.models
      [] r.mode = PosterPlacement -> r.poster
      [] OTHER -> <<>>

\* Number of Remote Image Operation calls the branch of r.mode makes when none fails.
Total(r) == IF IsBatchMode(r.mode) THEN Len(Units(r)) ELSE 1

Call(fn, a, b, p) == [fn |-> fn, a |-> a, b |-> b, prompt |-> p, status |-> "pending"]

\* Mutant of CallOf: generateImage is passed the trimmed prompt.
CallOfTrimsPrompt(r, k) ==
    CASE r.mode = OneModelNOutfits ->
            Call("generateVirtualTryOn", First(r.models), r.outfits[k], r.prompt)
      [] r.mode = NModelsOneOutfit ->
            Call("generateVirtualTryOn", r.models[k], First(r.outfits), r.prompt)
      [] r.mode = Editor -> Call("editImage", First(r.baseImage), NoArg, r.prompt)
      [] r.mode = Generator -> Call("generateImage", NoArg, NoArg, Trim(r.prompt))
      [] OTHER -> Call("placePosterOnWall", r.poster[k], NoArg, r.prompt)

\* The k-th Remote Image Operation call of r, as the branch of r.mode writes it.
CallOf(r, k) ==
    CASE r.mode = OneModelNOutfits ->
            Call("generateVirtualTryOn", First(r.models), r.outfits[k], r.prompt)
      [] r.mode = NModelsOneOutfit ->
            Call("generateVirtualTryOn", r.models[k], First(r.outfits), r.prompt)
      [] r.mode = Editor -> Call("editImage", First(r.baseImage), NoArg, r.prompt)
      [] r.mode = Generator -> Call("generateImage", NoArg, NoArg, r.prompt)
      [] OTHER -> Call("placePosterOnWall", r.poster[k], NoArg, r.prompt)

\* Mutant of ResultName: the edited image is named after the stem of the input, as the
\* try-on results are.
ResultNameEditedStem(r, k) ==
    CASE r.mode = OneModelNOutfits ->
            Stem(First(r.models).name) \o <<"_">> \o Stem(r.outfits[k].name) \o <<".", "png">>
      [] r.mode = NModelsOneOutfit ->
            Stem(r.models[k].name) \o <<"_">> \o Stem(First(r.outfits).name) \o <<".", "png">>
      [] r.mode = Editor -> <<"edited_">> \o Stem(First(r.baseImage).name) \o <<".", "png">>
      [] r.mode = Generator -> <<"generated_image", ".", "png">>
      [] OTHER -> <<"poster_in_room_">> \o r.poster[k].name

\* Mutant of ResultName: the many-to-one and poster branches name every result after
\* the first unit.
ResultNameOfFirstUnit(r, k) ==
    CASE r.mode = OneModelNOutfits ->
            Stem(First(r.models).name) \o <<"_">> \o Stem(r.outfits[k].name) \o <<".", "png">>
      [] r.mode = NModelsOneOutfit ->
            Stem(r.models[1].name) \o <<"_">> \o Stem(First(r.outfits).name) \o <<".", "png">>
      [] r.mode = Editor -> <<"edited_">> \o First(r.baseImage).name
      [] r.mode = Generator -> <<"generated_image", ".", "png">>
      [] OTHER -> <<"poster_in_room_">> \o r.poster[1].name

\* The name given to the result of the k-th call.
ResultName(r, k) ==
    CASE r.mode = OneModelNOutfits ->
            Stem(First(r.models).name) \o <<"_">> \o Stem(r.outfits[k].name) \o <<".", "png">>
      [] r.mode = NModelsOneOutfit ->
            Stem(r.models[k].name) \o <<"_">> \o Stem(First(r.outfits).name) \o <<".", "png">>
      [] r.mode = Editor -> <<"edited_">> \o First(r.baseImage).name
      [] r.mode = Generator -> <<"generated_image", ".", "png">>
      [] OTHER -> <<"poster_in_room_">> \o r.poster[k].name

\* Reading .name of models[0], outfits[0] or baseImage[0] throws when the array is empty.
NameThrows(r) ==
    \/ r.mode = OneModelNOutfits /\ Len(r.models) = 0
    \/ r.mode = NModelsOneOutfit /\ Len(r.outfits) = 0
    \/ r.mode = Editor /\ Len(r.baseImage) = 0

NoMessage == [text |-> "", k |-> 0, of |-> 0]

\* Mutant of MessageOf: the batch branches print the loop index, not index + 1.
MessageOfIndex(r, k) ==
    CASE r.mode = Editor -> [text |-> "Editing your image...", k |-> 0, of |-> 0]
      [] r.mode = Generator -> [text |-> "Generating your masterpiece...", k |-> 0, of |-> 0]
      [] r.mode = PosterPlacement ->
            [text |-> "Placing posters...", k |-> k - 1, of |-> Len(r.poster)]
      [] OTHER -> [text |-> "Generating images...", k |-> k - 1, of |-> Total(r)]

\* The loading message set before the k-th call.
MessageOf(r, k) ==
    CASE r.mode = Editor -> [text |-> "Editing your image...", k |-> 0, of |-> 0]
      [] r.mode = Generator -> [text |-> "Generating your masterpiece...", k |-> 0, of |-> 0]
      [] r.mode = PosterPlacement -> [text |-> "Placing posters...", k |-> k, of |-> Len(r.poster)]
      [] OTHER -> [text |-> "Generating images...", k |-> k, of |-> Total(r)]

\* What is recorded of a handleGenerate invocation when it ends: its mode, the number
\* of work units, the status of every call it issued, how it ended and the number of
\* Result Records on display at that moment.
NoRun == [mode |-> OneModelNOutfits, total |-> 0, statuses |-> <<>>, outcome |-> "none",
          published |-> 0]

Ended(r, calls, outcome, shown) ==
    [mode |-> r.mode, total |-> Total(r),
     statuses |-> [j \in 1..Len(calls) |-> calls[j].status],
     outcome |-> outcome, published |-> Len(shown)]

RemoveAt(s, i) == SubSeq(s, 1, i - 1) \o SubSeq(s, i + 1, Len(s))

SetStatus(calls, status) == [calls EXCEPT ![Len(calls)].status = status]

\* finally: setIsLoading(false); setLoadingMessage('')
Finally ==
    /\ isLoading' = FALSE
    /\ loadingMessage' = NoMessage

\* Mutant of handleGenerate: setResults([]) is missing, the results of the previous run
\* stay on until the new ones replace them.
handleGenerateKeepsResults ==
    LET r == Closure
    IN  /\ ~isGenerateButtonDisabled
        /\ IF Total(r) = 0
           THEN /\ results' = <<>>
                /\ Finally
                /\ lastRun' = Ended(r, <<>>, "success", <<>>)
                /\ UNCHANGED <<inflight, outstanding>>
           ELSE /\ isLoading' = TRUE
                /\ loadingMessage' = MessageOf(r, 1)
                /\ inflight' = Append(inflight, [r EXCEPT !.calls = <<CallOf(r, 1)>>])
                /\ outstanding' = outstanding + 1
                /\ lastRun' = NoRun
                /\ UNCHANGED results
        /\ UNCHANGED <<mode, models, outfits, baseImage, poster, prompt, uploadedFiles>>

\* Click on the submit button: handleGenerate up to its first await. In a batch mode
\* with an empty array the loop body never runs and the function ends at once.
handleGenerate ==
    LET r == Closure
    IN  /\ ~isGenerateButtonDisabled
        /\ IF Total(r) = 0
           THEN /\ results' = <<>>
                /\ Finally
                /\ lastRun' = Ended(r, <<>>, "success", <<>>)
                /\ UNCHANGED <<inflight, outstanding>>
           ELSE /\ isLoading' = TRUE
                /\ results' = <<>>
                /\ loadingMessage' = MessageOf(r, 1)
                /\ inflight' = Append(inflight, [r EXCEPT !.calls = <<CallOf(r, 1)>>])
                /\ outstanding' = outstanding + 1
                /\ lastRun' = NoRun
        /\ UNCHANGED <<mode, models, outfits, baseImage, poster, prompt, uploadedFiles>>

\* Mutant of Resolve: the next call is passed the prompt of the current render, not the
\* prompt of the render handleGenerate was made in.
ResolveReadsLivePrompt(i, src) ==
    LET r == inflight[i]
        k == Len(r.calls)
        calls == SetStatus(r.calls, "resolved")
        generatedResults == Append(r.generatedResults, ResultImage(src, ResultName(r, k)))
    IN  /\ i \in 1..Len(inflight)
        /\ IF NameThrows(r)
           THEN /\ Finally
                /\ inflight' = RemoveAt(inflight, i)
                /\ outstanding' = outstanding - 1
                /\ lastRun' = Ended(r, calls, "failure", results)
                /\ UNCHANGED results
           ELSE IF k < Total(r)
           THEN /\ loadingMessage' = MessageOf(r, k + 1)
                /\ inflight' = [inflight EXCEPT ![i] =
                       [r EXCEPT !.calls =
                                     Append(calls, CallOf([r EXCEPT !.prompt = prompt], k + 1)),
                                 !.generatedResults = generatedResults]]
                /\ UNCHANGED <<results, isLoading, outstanding, lastRun>>
           ELSE /\ results' = generatedResults
                /\ Finally
                /\ inflight' = RemoveAt(inflight, i)
                /\ outstanding' = outstanding - 1
                /\ lastRun' = Ended(r, calls, "success", generatedResults)
        /\ UNCHANGED <<mode, models, outfits, baseImage, poster, prompt, uploadedFiles>>

\* The awaited call of inflight[i] resolves with src: the rest of that loop iteration,
\* then either the next iteration up to its await, or setResults and the finally block.
Resolve(i, src) ==
    LET r == inflight[i]
        k == Len(r.calls)
        calls == SetStatus(r.calls, "resolved")
        generatedResults == Append(r.generatedResults, ResultImage(src, ResultName(r, k)))
    IN  /\ i \in 1..Len(inflight)
        /\ IF NameThrows(r)
           THEN /\ Finally
                /\ inflight' = RemoveAt(inflight, i)
                /\ outstanding' = outstanding - 1
                /\ lastRun' = Ended(r, calls, "failure", results)
                /\ UNCHANGED results
           ELSE IF k < Total(r)
           THEN /\ loadingMessage' = MessageOf(r, k + 1)
                /\ inflight' = [inflight EXCEPT ![i] =
                       [r EXCEPT !.calls = Append(calls, CallOf(r, k + 1)),
                                 !.generatedResults = generatedResults]]
                /\ UNCHANGED <<results, isLoading, outstanding, lastRun>>
           ELSE /\ results' = generatedResults
                /\ Finally
                /\ inflight' = RemoveAt(inflight, i)
                /\ outstanding' = outstanding - 1
                /\ lastRun' = Ended(r, calls, "success", generatedResults)
        /\ UNCHANGED <<mode, models, outfits, baseImage, poster, prompt, uploadedFiles>>

\* Mutant of Reject: the catch block publishes the results collected so far.
RejectPublishesPartial(i) ==
    LET r == inflight[i]
    IN  /\ i \in 1..Len(inflight)
        /\ Finally
        /\ results' = r.generatedResults
        /\ inflight' = RemoveAt(inflight, i)
        /\ outstanding' = outstanding - 1
        /\ lastRun' = Ended(r, SetStatus(r.calls, "rejected"), "failure", r.generatedResults)
        /\ UNCHANGED <<mode, models, outfits, baseImage, poster, prompt, uploadedFiles>>

\* Mutant of Reject: the loading flags are reset at the end of the try block, not in a
\* finally block, so a rejection leaves them set.
RejectLeavesLoading(i) ==
    LET r == inflight[i]
    IN  /\ i \in 1..Len(inflight)
        /\ inflight' = RemoveAt(inflight, i)
        /\ outstanding' = outstanding - 1
        /\ lastRun' = Ended(r, SetStatus(r.calls, "rejected"), "failure", results)
        /\ UNCHANGED <<mode, models, outfits, baseImage, poster, prompt, results,
                       uploadedFiles, isLoading, loadingMessage>>

\* The awaited call of inflight[i] rejects: the catch block, then the finally block.
Reject(i) ==
    LET r == inflight[i]
    IN  /\ i \in 1..Len(inflight)
        /\ Finally
        /\ inflight' = RemoveAt(inflight, i)
        /\ outstanding' = outstanding - 1
        /\ lastRun' = Ended(r, SetStatus(r.calls, "rejected"), "failure", results)
        /\ UNCHANGED <<mode, models, outfits, baseImage, poster, prompt, results,
                       uploadedFiles>>

----------------------------------------------------------------------------
(* The App under user actions and remote call completions *)

AppInit ==
    /\ mode = OneModelNOutfits
    /\ models = <<>>
    /\ outfits = <<>>
    /\ baseImage = <<>>
    /\ poster = <<>>
    /\ prompt = DefaultTryOnPrompt
    /\ results = <<>>
    /\ isLoading = FALSE
    /\ loadingMessage = NoMessage
    /\ uploadedFiles = [s \in Slots |-> <<>>]
    /\ inflight = <<>>
    /\ outstanding = 0
    /\ lastRun = NoRun
    /\ midRun = 0

\* No stand-alone uploader is exercised.
UploaderIdle ==
    /\ uploader = [multiple |-> FALSE, limit |-> 0, uploadedFiles |-> <<>>,
                   previews |-> <<>>, reported |-> <<>>]
    /\ uploaderLog = [op |-> "mount", drop |-> <<>>, added |-> <<>>, removed |-> FALSE]
    /\ objectURLs = <<>>

\* downloadAllAsZip is not called.
ZipIdle ==
    /\ zipImages = <<>>
    /\ zipPc = "idle"
    /\ fetchStatus = <<>>
    /\ zipFiles = <<>>
    /\ zipObjects = 0
    /\ generateCalls = 0

Init == AppInit /\ UploaderIdle /\ ZipIdle

\* A handler run from a user event; while a run is in flight the user acts at most
\* MaxMidRun times.
UserEvent(A) ==
    /\ inflight # <<>> => midRun < MaxMidRun
    /\ A
    /\ midRun' = IF inflight # <<>> THEN midRun + 1 ELSE 0
    /\ UNCHANGED <<uploaderVars, zipVars>>

\* A continuation run when a Remote Image Operation call settles.
Settled(A) ==
    /\ A
    /\ midRun' = IF inflight' = <<>> THEN 0 ELSE midRun
    /\ UNCHANGED <<uploaderVars, zipVars>>

AddFiles == \E slot \in Slots, files \in Batches : UserEvent(HandleFiles(slot, files))
RemoveOne == \E slot \in Slots, f \in Files : UserEvent(RemoveFile(slot, f.name))
EditPrompt == \E p \in PromptInputs : UserEvent(SetPrompt(p))
SwitchMode == \E m \in AppMode : UserEvent(handleModeChange(m))
ClickGenerate == UserEvent(handleGenerate)
CallResolves == \E i \in 1..Len(inflight), src \in Srcs : Settled(Resolve(i, src))
CallRejects == \E i \in 1..Len(inflight) : Settled(Reject(i))
CallSettles == CallResolves \/ CallRejects

Next ==
    \/ AddFiles
    \/ RemoveOne
    \/ EditPrompt
    \/ SwitchMode
    \/ ClickGenerate
    \/ CallResolves
    \/ CallRejects

Spec == Init /\ [][Next]_vars

\* Every Remote Image Operation call eventually resolves or rejects.
FairSpec == Spec /\ WF_vars(CallSettles)

----------------------------------------------------------------------------
(* Properties of the batch run *)

AnnaPng == [name |-> <<"anna", ".", "png">>, type |-> "image/png"]
BoJpg == [name |-> <<"bo", ".", "v2", ".", "jpg">>, type |-> "image/jpeg"]
NotesTxt == [name |-> <<"notes", ".", "txt">>, type |-> "text/plain"]

\* C1: fail-fast, no partial results. In a batch run over N >= 1 units no call is issued
\* after a rejected one (a rejected call is the last call of a run that has ended, a run
\* in flight has none), a run that failed ended with an empty result set, which stays
\* empty until the next run, and the number of Result Records at the end of a run is N
\* if and only if no call was rejected.
C1_FailFastNoPartialResults ==
    /\ \A i \in 1..Len(inflight) : \A j \in 1..Len(inflight[i].calls) :
           inflight[i].calls[j].status =
               IF j = Len(inflight[i].calls) THEN "pending" ELSE "resolved"
    /\ (lastRun.outcome # "none" /\ IsBatchMode(lastRun.mode) /\ lastRun.total >= 1) =>
           /\ \A k \in 1..Len(lastRun.statuses) :
                  lastRun.statuses[k] = "rejected" => k = Len(lastRun.statuses)
           /\ (\E k \in 1..Len(lastRun.statuses) : lastRun.statuses[k] = "rejected") =>
                  /\ lastRun.published = 0
                  /\ results = <<>>
           /\ lastRun.published = lastRun.total <=>
                  \A k \in 1..Len(lastRun.statuses) : lastRun.statuses[k] # "rejected"

\* A run over two units whose first call resolved and whose second call rejected has
\* ended, and nothing is on display.
C1_Witness ==
    /\ lastRun.outcome = "failure"
    /\ IsBatchMode(lastRun.mode)
    /\ lastRun.total = 2
    /\ lastRun.statuses = <<"resolved", "rejected">>
    /\ results = <<>>
    /\ ~isLoading

\* The part of a name before its first ".", the whole name when it has none.
BeforeFirstDot(name) ==
    LET n == CHOOSE n \in 0..Len(name) :
                 /\ \A j \in 1..n : name[j] # "."
                 /\ n = Len(name) \/ name[n + 1] = "."
    IN  SubSeq(name, 1, n)

\* The calls a one-to-many run has issued are its first calls in input order: the i-th is
\* generateVirtualTryOn(models[0], outfits[i], prompt).
OneToManyCallsFollowInputs(r) ==
    /\ Len(r.calls) <= Len(r.outfits)
    /\ \A i \in 1..Len(r.calls) :
           /\ r.calls[i].fn = "generateVirtualTryOn"
           /\ r.calls[i].a = r.models[1]
           /\ r.calls[i].b = r.outfits[i]
           /\ r.calls[i].prompt = r.prompt

\* A one-to-many run ends with every call resolved.
OneToManySucceeds ==
    /\ Len(inflight) = 1
    /\ inflight[1].mode = OneModelNOutfits
    /\ inflight' = <<>>
    /\ lastRun'.outcome = "success"

\* C2: a paired one-to-many run over N >= 1 outfits issues its calls in input order, the
\* i-th with (models[0], outfits[i], prompt); when all succeed exactly N calls were issued
\* and the result list has N entries, the i-th named stem(model) _ stem(outfit i) .png.
C2_PairedOneToMany ==
    /\ [](\A i \in 1..Len(inflight) :
              inflight[i].mode = OneModelNOutfits => OneToManyCallsFollowInputs(inflight[i]))
    /\ [][OneToManySucceeds =>
              LET r == inflight[1]
                  N == Len(r.outfits)
              IN  /\ N >= 1
                  /\ Len(r.calls) = N
                  /\ Len(lastRun'.statuses) = N
                  /\ Len(results') = N
                  /\ \A i \in 1..N :
                         results'[i].name =
                             BeforeFirstDot(r.models[1].name) \o <<"_">>
                                 \o BeforeFirstDot(r.outfits[i].name) \o <<".", "png">>]_vars

\* A one-to-many run of bo.v2.jpg over the outfits anna.png, bo.v2.jpg has succeeded.
C2_Witness ==
    /\ lastRun.outcome = "success"
    /\ lastRun.mode = OneModelNOutfits
    /\ lastRun.statuses = <<"resolved", "resolved">>
    /\ Len(results) = 2
    /\ results[1].name = <<"bo", "_", "anna", ".", "png">>
    /\ results[2].name = <<"bo", "_", "bo", ".", "png">>

\* C3: at most one batch run is in flight and at most one Remote Image Operation call is
\* outstanding, whatever the user does while a run is in flight.
C3_OneRunOneCall ==
    /\ Len(inflight) <= 1
    /\ outstanding <= 1
    /\ Cardinality(UNION {{<<i, j>> : j \in {j \in 1..Len(inflight[i].calls) :
                                                 inflight[i].calls[j].status = "pending"}} :
                          i \in 1..Len(inflight)}) <= 1

\* A run is in flight with its call outstanding, and the user has switched the mode
\* since it started.
C3_Witness ==
    /\ Len(inflight) = 1
    /\ outstanding = 1
    /\ isLoading
    /\ midRun >= 1
    /\ mode # inflight[1].mode

\* Every Input Registry is empty: the lists of the App and the list of every upload slot.
AllRegistriesEmpty ==
    /\ models = <<>>
    /\ outfits = <<>>
    /\ baseImage = <<>>
    /\ poster = <<>>
    /\ \A slot \in Slots : uploadedFiles[slot] = <<>>

\* C4: right after handleModeChange(newMode), from any state, every Input Registry is
\* empty, the result set is empty and the prompt is newMode's default text.
C4_ModeSwitchClearsAll ==
    [][\A newMode \in AppMode :
           handleModeChange(newMode) =>
               /\ mode' = newMode
               /\ AllRegistriesEmpty'
               /\ results' = <<>>
               /\ prompt' = DefaultPrompt(newMode)]_vars

\* Visible text: some token of the prompt is not whitespace.
NonBlank(p) == \E i \in 1..Len(p) : p[i] # " "

\* The preconditions of the mode of a run, on the values the run works on.
PreconditionsHold(r) ==
    CASE r.mode \in {OneModelNOutfits, NModelsOneOutfit} ->
            Len(r.models) >= 1 /\ Len(r.outfits) >= 1
      [] r.mode = Editor -> Len(r.baseImage) >= 1 /\ NonBlank(r.prompt)
      [] r.mode = PosterPlacement -> Len(r.poster) >= 1 /\ NonBlank(r.prompt)
      [] r.mode = Generator -> NonBlank(r.prompt)
      [] OTHER -> FALSE

\* C7: a run is in flight only with the preconditions of its mode satisfied, and every
\* image argument of every call it has issued exists.
C7_RunsStartOnValidInputs ==
    \A i \in 1..Len(inflight) :
        /\ PreconditionsHold(inflight[i])
        /\ \A j \in 1..Len(inflight[i].calls) :
               /\ inflight[i].calls[j].a # Undefined
               /\ inflight[i].calls[j].b # Undefined

\* A many-to-one run is at its second call: models[1] and outfits[0] are passed.
C7_Witness ==
    /\ Len(inflight) = 1
    /\ inflight[1].mode = NModelsOneOutfit
    /\ Len(inflight[1].calls) = 2
    /\ inflight[1].calls[2].a = ImageFile(BoJpg)
    /\ inflight[1].calls[2].b = ImageFile(AnnaPng)

\* A user action taken while a run is in flight.
UserActsDuringRun == inflight # <<>> /\ midRun' = midRun + 1

\* C8: every run terminates, given that every call settles: isLoading, once true, becomes
\* false again; and no user action taken during a run changes the run (its calls, its
\* collected results), the loading flag or the outstanding call.
C8_EveryRunTerminates ==
    /\ isLoading ~> ~isLoading
    /\ [][UserActsDuringRun => UNCHANGED <<inflight, outstanding, isLoading>>]_vars

\* A run over two units has ended in success and published its results although the
\* mode was switched while it was in flight.
C8_Witness ==
    /\ ~isLoading
    /\ lastRun.outcome = "success"
    /\ lastRun.total = 2
    /\ lastRun.published = 2
    /\ results # <<>>
    /\ mode # lastRun.mode

\* The only run in flight, of mode m, ends with every call resolved.
RunSucceeds(m) ==
    /\ Len(inflight) = 1
    /\ inflight[1].mode = m
    /\ inflight' = <<>>
    /\ lastRun'.outcome = "success"

\* The only run in flight, of mode m, ends.
RunEnds(m) ==
    /\ Len(inflight) = 1
    /\ inflight[1].mode = m
    /\ inflight' = <<>>

\* C11: a single-edit run issues exactly one call, editImage(baseImage[0], prompt): that
\* is its only call while it is in flight and when it ends; when the call resolves the
\* result set is one record named "edited_" followed by the full name of the input file.
C11_SingleEdit ==
    /\ [](\A i \in 1..Len(inflight) :
              inflight[i].mode = Editor =>
                  /\ Len(inflight[i].baseImage) >= 1
                  /\ inflight[i].calls =
                         <<[fn |-> "editImage", a |-> inflight[i].baseImage[1], b |-> NoArg,
                            prompt |-> inflight[i].prompt, status |-> "pending"]>>)
    /\ [][(RunEnds(Editor) => Len(lastRun'.statuses) = 1)
          /\ (RunSucceeds(Editor) =>
                  /\ Len(results') = 1
                  /\ results'[1].name = <<"edited_">> \o inflight[1].baseImage[1].name)]_vars

\* The edit of bo.v2.jpg has succeeded: the one result is named edited_bo.v2.jpg.
C11_Witness ==
    /\ lastRun.outcome = "success"
    /\ lastRun.mode = Editor
    /\ lastRun.statuses = <<"resolved">>
    /\ Len(results) = 1
    /\ results[1].name = <<"edited_", "bo", ".", "v2", ".", "jpg">>

\* C12: a prompt-only generation run holds no image, issues exactly one call,
\* generateImage(prompt): that is its only call while it is in flight and when it ends;
\* when the call resolves the result set is one record named generated_image.png.
C12_PromptOnlyGeneration ==
    /\ [](\A i \in 1..Len(inflight) :
              inflight[i].mode = Generator =>
                  /\ inflight[i].models = <<>> /\ inflight[i].outfits = <<>>
                  /\ inflight[i].baseImage = <<>> /\ inflight[i].poster = <<>>
                  /\ inflight[i].calls =
                         <<[fn |-> "generateImage", a |-> NoArg, b |-> NoArg,
                            prompt |-> inflight[i].prompt, status |-> "pending"]>>)
    /\ [][(RunEnds(Generator) => Len(lastRun'.statuses) = 1)
          /\ (RunSucceeds(Generator) =>
                  /\ Len(results') = 1
                  /\ results'[1].name = <<"generated_image", ".", "png">>)]_vars

\* A generation run started with no image selected and the prompt "hi " has succeeded.
C12_Witness ==
    /\ lastRun.outcome = "success"
    /\ lastRun.mode = Generator
    /\ lastRun.statuses = <<"resolved">>
    /\ models = <<>> /\ outfits = <<>> /\ baseImage = <<>> /\ poster = <<>>
    /\ prompt = <<"hi", " ">>
    /\ Len(results) = 1
    /\ results[1].name = <<"generated_image", ".", "png">>

\* The input units of a batch run, in input order.
InputUnits(r) ==
    IF r.mode = OneModelNOutfits THEN r.outfits
    ELSE IF r.mode = NModelsOneOutfit THEN r.models
    ELSE r.poster

\* The input unit a call of a batch run was issued for.
UnitOfCall(r, call) == IF r.mode = OneModelNOutfits THEN call.b ELSE call.a

\* The name the result of input unit i of a batch run is to have.
NameOfUnit(r, i) ==
    IF r.mode = OneModelNOutfits
    THEN BeforeFirstDot(r.models[1].name) \o <<"_">> \o BeforeFirstDot(r.outfits[i].name)
             \o <<".", "png">>
    ELSE IF r.mode = NModelsOneOutfit
    THEN BeforeFirstDot(r.models[i].name) \o <<"_">> \o BeforeFirstDot(r.outfits[1].name)
             \o <<".", "png">>
    ELSE <<"poster_in_room_">> \o r.poster[i].name

\* C13: strict in-order completion in the three batch modes. While a run is in flight its
\* j-th call is the call for input unit j, every call but the last has resolved and has
\* produced result j, named after unit j, and the last is still pending; when the run
\* succeeds the result set has one record per unit, the i-th named after unit i.
C13_StrictInOrderCompletion ==
    /\ [](\A i \in 1..Len(inflight) :
              IsBatchMode(inflight[i].mode) =>
                  LET r == inflight[i]
                      n == Len(r.calls)
                  IN  /\ n >= 1 /\ n <= Len(InputUnits(r))
                      /\ Len(r.generatedResults) = n - 1
                      /\ \A j \in 1..n :
                             /\ UnitOfCall(r, r.calls[j]) = InputUnits(r)[j]
                             /\ r.calls[j].status = IF j < n THEN "resolved" ELSE "pending"
                      /\ \A j \in 1..(n - 1) : r.generatedResults[j].name = NameOfUnit(r, j))
    /\ [][\A m \in {OneModelNOutfits, NModelsOneOutfit, PosterPlacement} :
              RunSucceeds(m) =>
                  /\ Len(inflight[1].calls) = Len(InputUnits(inflight[1]))
                  /\ Len(results') = Len(InputUnits(inflight[1]))
                  /\ \A j \in 1..Len(results') :
                         results'[j].name = NameOfUnit(inflight[1], j)]_vars

\* A many-to-one run of the models anna.png, bo.v2.jpg over the outfit bo.v2.jpg has
\* succeeded.
C13_Witness ==
    /\ lastRun.outcome = "success"
    /\ lastRun.mode = NModelsOneOutfit
    /\ lastRun.statuses = <<"resolved", "resolved">>
    /\ Len(results) = 2
    /\ results[1].name = <<"anna", "_", "bo", ".", "png">>
    /\ results[2].name = <<"bo", "_", "bo", ".", "png">>

\* C14: whenever a Remote Image Operation call is outstanding the result set is empty.
C14_ResultsEmptyDuringRun ==
    (outstanding > 0 \/ inflight # <<>>) => results = <<>>

\* A run is at its second call: it has collected one result, and none is on display.
C14_Witness ==
    /\ outstanding = 1
    /\ Len(inflight) = 1
    /\ Len(inflight[1].calls) = 2
    /\ Len(inflight[1].generatedResults) = 1
    /\ results = <<>>

\* C15: while a batch run over N units is in flight with its k-th call issued, the
\* progress label reads (k of N); whenever no run is in flight the label is empty.
C15_ProgressLabel ==
    /\ \A i \in 1..Len(inflight) :
           IsBatchMode(inflight[i].mode) =>
               /\ loadingMessage.text # ""
               /\ loadingMessage.k = Len(inflight[i].calls)
               /\ loadingMessage.of = Len(InputUnits(inflight[i]))
    /\ inflight = <<>> => loadingMessage = [text |-> "", k |-> 0, of |-> 0]

\* A poster run over two images is at its second call: the label reads (2 of 2).
C15_Witness ==
    /\ Len(inflight) = 1
    /\ inflight[1].mode = PosterPlacement
    /\ Len(inflight[1].calls) = 2
    /\ loadingMessage = [text |-> "Placing posters...", k |-> 2, of |-> 2]

\* C18: results always belong to the active mode: a non-empty result set was produced by
\* a run of the active mode. (A consequence of the claim, which also asks for the run to
\* have started after the last mode switch.)
C18_ResultsBelongToActiveMode ==
    results # <<>> => (lastRun.outcome = "success" /\ lastRun.mode = mode)

\* The number of calls the inputs of a run call for.
PlannedCalls(r) == IF IsBatchMode(r.mode) THEN Len(InputUnits(r)) ELSE 1

\* The function and arguments of the j-th call the inputs of a run call for.
PlannedCall(r, j) ==
    IF r.mode = OneModelNOutfits
    THEN [fn |-> "generateVirtualTryOn", a |-> r.models[1], b |-> r.outfits[j],
          prompt |-> r.prompt]
    ELSE IF r.mode = NModelsOneOutfit
    THEN [fn |-> "generateVirtualTryOn", a |-> r.models[j], b |-> r.outfits[1],
          prompt |-> r.prompt]
    ELSE IF r.mode = Editor
    THEN [fn |-> "editImage", a |-> r.baseImage[1], b |-> NoArg, prompt |-> r.prompt]
    ELSE IF r.mode = Generator
    THEN [fn |-> "generateImage", a |-> NoArg, b |-> NoArg, prompt |-> r.prompt]
    ELSE [fn |-> "placePosterOnWall", a |-> r.poster[j], b |-> NoArg, prompt |-> r.prompt]

\* The name of the j-th result the inputs of a run call for.
PlannedName(r, j) ==
    IF IsBatchMode(r.mode) THEN NameOfUnit(r, j)
    ELSE IF r.mode = Editor THEN <<"edited_">> \o r.baseImage[1].name
    ELSE <<"generated_image", ".", "png">>

\* handleGenerate starts a run.
RunStarts == Len(inflight') = Len(inflight) + 1

\* C19: a run works on a snapshot of its inputs. The inputs of a run are the mode, the
\* image lists and the prompt of the moment handleGenerate starts; every call the run has
\* issued and every result it has collected is the one these inputs call for; no user
\* action taken while the run is in flight changes the inputs, the calls or the results
\* of the run; and a run that succeeds has issued the planned number of calls and
\* publishes the planned names.
C19_RunWorksOnSnapshot ==
    /\ [](\A i \in 1..Len(inflight) :
              LET r == inflight[i]
              IN  /\ Len(r.calls) <= PlannedCalls(r)
                  /\ \A j \in 1..Len(r.calls) :
                         [fn |-> r.calls[j].fn, a |-> r.calls[j].a, b |-> r.calls[j].b,
                          prompt |-> r.calls[j].prompt] = PlannedCall(r, j)
                  /\ \A j \in 1..Len(r.generatedResults) :
                         r.generatedResults[j].name = PlannedName(r, j))
    /\ [][/\ RunStarts =>
                 LET r == inflight'[Len(inflight')]
                 IN  /\ r.mode = mode /\ r.prompt = prompt
                     /\ r.models = models /\ r.outfits = outfits
                     /\ r.baseImage = baseImage /\ r.poster = poster
          /\ UserActsDuringRun => inflight' = inflight
          /\ \A m \in AppMode :
                 RunSucceeds(m) =>
                     /\ Len(inflight[1].calls) = PlannedCalls(inflight[1])
                     /\ Len(results') = PlannedCalls(inflight[1])
                     /\ \A j \in 1..Len(results') :
                            results'[j].name = PlannedName(inflight[1], j)]_vars

\* A run is at its second call, issued with the prompt of its start although the prompt
\* was edited after the first call was issued.
C19_Witness ==
    /\ Len(inflight) = 1
    /\ Len(inflight[1].calls) = 2
    /\ midRun = 1
    /\ prompt # inflight[1].prompt
    /\ inflight[1].calls[2].prompt = inflight[1].prompt

----------------------------------------------------------------------------
(* A stand-alone ImageUploader, with any props *)

UploaderInit ==
    /\ uploader \in [multiple : BOOLEAN, limit : 0..MaxFiles,
                     uploadedFiles : {<<>>}, previews : {<<>>}, reported : {<<>>}]
    /\ uploaderLog = [op |-> "mount", drop |-> <<>>, added |-> <<>>, removed |-> FALSE]
    /\ objectURLs = <<>>
    /\ AppInit
    /\ ZipIdle

\* handleFiles(files) of the stand-alone uploader; onFilesChange is recorded in `reported`,
\* the preview of uploadedFiles[i] in previews[i].
UploaderHandleFiles(files) ==
    LET newImageFiles == NewImageFiles(files)
        updatedFiles == UpdatedFiles(uploader.uploadedFiles, newImageFiles,
                                     uploader.multiple, uploader.limit)
        updatedPreviews == UpdatedFiles(uploader.previews,
                                        NewPreviews(objectURLs, newImageFiles),
                                        uploader.multiple, uploader.limit)
    IN  /\ Len(uploaderLog.added) + Len(newImageFiles) <= MaxAdded
        /\ objectURLs' = CreateObjectURLs(objectURLs, newImageFiles)
        /\ IF Len(newImageFiles) = 0
           THEN uploader' = uploader
           ELSE /\ Len(updatedFiles) <= MaxFiles
                /\ uploader' = [uploader EXCEPT !.uploadedFiles = updatedFiles,
                                                !.previews = updatedPreviews,
                                                !.reported = updatedFiles]
        /\ uploaderLog' = [uploaderLog EXCEPT !.op = "add", !.drop = files,
                                              !.added = @ \o newImageFiles]
        /\ UNCHANGED <<runVars, zipVars>>

\* removeFile(fileName) of the stand-alone uploader.
UploaderRemoveFile(fileName) ==
    LET newFiles == WithoutName(uploader.uploadedFiles, fileName)
    IN  /\ \E i \in 1..Len(uploader.uploadedFiles) :
               uploader.uploadedFiles[i].name = fileName
        /\ uploader' = [uploader EXCEPT
               !.uploadedFiles = newFiles,
               !.previews = PreviewsWithoutName(uploader.uploadedFiles, @, fileName),
               !.reported = newFiles]
        /\ uploaderLog' = [uploaderLog EXCEPT !.op = "remove", !.drop = <<>>,
                                              !.removed = TRUE]
        /\ UNCHANGED objectURLs
        /\ UNCHANGED <<runVars, zipVars>>

UploaderAdd == \E files \in Batches : UploaderHandleFiles(files)
UploaderRemove == \E f \in Files : UploaderRemoveFile(f.name)

UploaderNext ==
    \/ UploaderAdd
    \/ UploaderRemove

UploaderSpec == UploaderInit /\ [][UploaderNext]_vars

\* C5: a multi-select slot with limit L >= 1 that has only been added to, with more than
\* L image files in all, holds exactly the L most recently added ones in their order, and
\* has reported that list to its owner.
C5_TruncationKeepsMostRecent ==
    LET L == uploader.limit
        added == uploaderLog.added
    IN  (uploader.multiple /\ L >= 1 /\ ~uploaderLog.removed /\ Len(added) > L) =>
            /\ uploader.uploadedFiles = SubSeq(added, Len(added) - L + 1, Len(added))
            /\ uploader.reported = uploader.uploadedFiles

\* Limit 2: after anna.png, bo.v2.jpg, anna.png the slot holds bo.v2.jpg, anna.png.
C5_Witness ==
    /\ uploader.multiple
    /\ uploader.limit = 2
    /\ ~uploaderLog.removed
    /\ uploaderLog.added = <<ImageFile(AnnaPng), ImageFile(BoJpg), ImageFile(AnnaPng)>>
    /\ uploader.uploadedFiles = <<ImageFile(BoJpg), ImageFile(AnnaPng)>>

\* The last image file of a batch that holds one.
LastImageOf(files) ==
    LET last == CHOOSE i \in 1..Len(files) :
                    /\ StartsWithImage(files[i].type)
                    /\ \A j \in (i + 1)..Len(files) : ~StartsWithImage(files[j].type)
    IN  files[last]

HasImage(files) == \E i \in 1..Len(files) : StartsWithImage(files[i].type)

\* C6 as stated: after add of a batch of files a single-select slot holds exactly one
\* entry, the last file of the batch.
C6_SingleKeepsLastFile ==
    (~uploader.multiple /\ uploaderLog.op = "add" /\ Len(uploaderLog.drop) >= 1) =>
        /\ Len(uploader.uploadedFiles) = 1
        /\ uploader.uploadedFiles[1].file = uploaderLog.drop[Len(uploaderLog.drop)]

\* C6 as amended: a single-select slot never holds more than one entry, and after add of
\* a batch that holds an image file it holds exactly one entry, the last image file of
\* the batch.
C6_SingleKeepsLastImage ==
    ~uploader.multiple =>
        /\ Len(uploader.uploadedFiles) <= 1
        /\ (uploaderLog.op = "add" /\ HasImage(uploaderLog.drop)) =>
               /\ uploader.uploadedFiles = <<ImageFile(LastImageOf(uploaderLog.drop))>>
               /\ uploader.reported = uploader.uploadedFiles

\* A single-select slot that held bo.v2.jpg was given the batch anna.png, bo.v2.jpg and
\* then the batch anna.png, notes.txt: it holds anna.png alone.
C6_Witness ==
    /\ ~uploader.multiple
    /\ uploaderLog.op = "add"
    /\ uploaderLog.drop = <<AnnaPng, NotesTxt>>
    /\ uploaderLog.added = <<ImageFile(AnnaPng), ImageFile(BoJpg), ImageFile(AnnaPng)>>
    /\ uploader.uploadedFiles = <<ImageFile(AnnaPng)>>

\* C16: every object URL made for a selected image is released when its entry is
\* removed or superseded: each live object URL is the preview of an entry the slot holds.
C16_LiveHandlesAreHeld ==
    \A u \in 1..Len(objectURLs) :
        objectURLs[u].live => \E i \in 1..Len(uploader.previews) : uploader.previews[i] = u

\* C17: removeFile(name), when the slot holds an entry of that name, removes exactly one
\* entry and leaves the others in their order.
C17_RemoveDropsExactlyOne ==
    [][\A f \in Files :
           UploaderRemoveFile(f.name) =>
               \E i \in 1..Len(uploader.uploadedFiles) :
                   /\ uploader.uploadedFiles[i].name = f.name
                   /\ uploader'.uploadedFiles =
                          SubSeq(uploader.uploadedFiles, 1, i - 1)
                              \o SubSeq(uploader.uploadedFiles, i + 1,
                                        Len(uploader.uploadedFiles))]_vars

----------------------------------------------------------------------------
(* fileUtils.ts: downloadAllAsZip *)

\* The result lists downloadAllAsZip is tried on.
ZipInputs ==
    { ResultImage("data:image/png;base64,AAA", <<"anna", "_", "bo", ".", "png">>),
      ResultImage("data:image/png;base64,BBB", <<"bo", "_", "bo", ".", "png">>),
      ResultImage("data:image/png;base64,BBB", <<"edited_", "anna", ".", "png">>) }

\* (await fetch(src)).blob()
BlobOf(src) == [bytesOf |-> src]

\* Every async callback of images.map has ended, in zip.file or in its catch block.
AllSettled(status) == \A j \in 1..Len(status) : status[j] \in {"added", "failed"}

\* new JSZip(), then images.map: every callback runs up to its fetch; when Promise.all
\* resolves, zip.generateAsync is called.
StartArchive ==
    /\ zipObjects' = zipObjects + 1
    /\ fetchStatus' = [j \in 1..Len(zipImages) |-> "pending"]
    /\ IF Len(zipImages) = 0
       THEN zipPc' = "generated" /\ generateCalls' = generateCalls + 1
       ELSE zipPc' = "fetching" /\ UNCHANGED generateCalls
    /\ UNCHANGED <<zipImages, zipFiles>>

\* Mutant of downloadAllAsZip: the test for an empty list is missing.
downloadAllAsZipUnguarded ==
    /\ zipPc = "idle"
    /\ StartArchive
    /\ UNCHANGED <<runVars, uploaderVars>>

downloadAllAsZip ==
    /\ zipPc = "idle"
    /\ IF Len(zipImages) = 0
       THEN /\ zipPc' = "returned"
            /\ UNCHANGED <<zipImages, fetchStatus, zipFiles, zipObjects, generateCalls>>
       ELSE StartArchive
    /\ UNCHANGED <<runVars, uploaderVars>>

\* The callback of image i goes to `status`; if that settles the last one, Promise.all
\* resolves and zip.generateAsync is called.
Advance(i, status, files) ==
    /\ zipPc = "fetching"
    /\ fetchStatus' = [fetchStatus EXCEPT ![i] = status]
    /\ zipFiles' = files
    /\ IF AllSettled(fetchStatus')
       THEN zipPc' = "generated" /\ generateCalls' = generateCalls + 1
       ELSE UNCHANGED <<zipPc, generateCalls>>
    /\ UNCHANGED <<zipImages, zipObjects, runVars, uploaderVars>>

\* fetch(image.src) resolves: the callback awaits response.blob().
FetchResolves(i) ==
    /\ i \in 1..Len(fetchStatus)
    /\ fetchStatus[i] = "pending"
    /\ Advance(i, "response", zipFiles)

\* Mutant of FetchRejects: no try/catch around the fetch, so Promise.all rejects and
\* downloadAllAsZip ends without calling zip.generateAsync.
FetchRejectsUncaught(i) ==
    /\ i \in 1..Len(fetchStatus)
    /\ fetchStatus[i] = "pending"
    /\ zipPc = "fetching"
    /\ fetchStatus' = [fetchStatus EXCEPT ![i] = "failed"]
    /\ zipPc' = "rejected"
    /\ UNCHANGED <<zipImages, zipFiles, zipObjects, generateCalls, runVars, uploaderVars>>

\* fetch(image.src) rejects: the catch block logs it.
FetchRejects(i) ==
    /\ i \in 1..Len(fetchStatus)
    /\ fetchStatus[i] = "pending"
    /\ Advance(i, "failed", zipFiles)

\* response.blob() resolves: zip.file(image.name, blob).
BlobResolves(i) ==
    /\ i \in 1..Len(fetchStatus)
    /\ fetchStatus[i] = "response"
    /\ Advance(i, "added",
               Append(zipFiles, [name |-> zipImages[i].name, blob |-> BlobOf(zipImages[i].src)]))

\* response.blob() rejects: the catch block logs it.
BlobRejects(i) ==
    /\ i \in 1..Len(fetchStatus)
    /\ fetchStatus[i] = "response"
    /\ Advance(i, "failed", zipFiles)

ZipInit ==
    /\ zipImages \in SeqsUpTo(ZipInputs, MaxZip)
    /\ zipPc = "idle"
    /\ fetchStatus = <<>>
    /\ zipFiles = <<>>
    /\ zipObjects = 0
    /\ generateCalls = 0
    /\ AppInit
    /\ UploaderIdle

ZipFetchResolves == \E i \in 1..MaxZip : FetchResolves(i)
ZipFetchRejects == \E i \in 1..MaxZip : FetchRejects(i)
ZipBlobResolves == \E i \in 1..MaxZip : BlobResolves(i)
ZipBlobRejects == \E i \in 1..MaxZip : BlobRejects(i)

ZipNext ==
    \/ downloadAllAsZip
    \/ ZipFetchResolves
    \/ ZipFetchRejects
    \/ ZipBlobResolves
    \/ ZipBlobRejects

ZipSpec == ZipInit /\ [][ZipNext]_vars

----------------------------------------------------------------------------
(* The App with its ResultGrid: the Download All button *)

\* {!isLoading && results.length > 0 && <ResultGrid results={results} />}
ResultGridShown == ~isLoading /\ Len(results) > 0

\* Mutant of DownloadAllShown: the button is rendered for any ResultGrid.
DownloadAllShownForAnyGrid == ResultGridShown

\* {results.length > 1 && <button onClick={() => downloadAllAsZip(results)}>}
DownloadAllShown == ResultGridShown /\ Len(results) > 1

\* Click on Download All: downloadAllAsZip(results) up to its first await.
DownloadAllClick ==
    /\ DownloadAllShown
    /\ zipPc = "idle"
    /\ zipImages' = results
    /\ IF Len(results) = 0
       THEN /\ zipPc' = "returned"
            /\ UNCHANGED <<fetchStatus, zipObjects>>
       ELSE /\ zipPc' = "fetching"
            /\ fetchStatus' = [j \in 1..Len(results) |-> "pending"]
            /\ zipObjects' = zipObjects + 1
    /\ UNCHANGED <<zipFiles, generateCalls, runVars, uploaderVars>>

\* The App is followed up to the first click on Download All. downloadAllAsZip works on
\* the list it was passed and writes no state of the App; what it does after its first
\* await is followed under ZipSpec, for any list.
DownloadNext ==
    \/ zipPc = "idle" /\ Next
    \/ DownloadAllClick

DownloadSpec == Init /\ [][DownloadNext]_vars

\* downloadAllAsZip is invoked.
ZipInvoked == zipPc = "idle" /\ zipPc' # "idle"

\* C20: downloadAllAsZip is invoked only in a state where isLoading is false, no run is in
\* flight and no call outstanding, and on the result set of that state, which holds at
\* least two records and is the whole result set of a run that succeeded: one record per
\* unit of that run.
C20_PackagingOnlyOnFinishedRun ==
    [][ZipInvoked =>
           /\ ~isLoading
           /\ inflight = <<>> /\ outstanding = 0
           /\ Len(results) >= 2
           /\ zipImages' = results
           /\ lastRun.outcome = "success"
           /\ Len(results) = lastRun.total]_vars

\* Download All was clicked on the two results of a one-to-many run: downloadAllAsZip
\* has issued a fetch for each of them.
C20_Witness ==
    /\ zipPc = "fetching"
    /\ zipImages = results
    /\ Len(results) = 2
    /\ fetchStatus = <<"pending", "pending">>
    /\ ~isLoading
    /\ lastRun.mode = OneModelNOutfits
    /\ lastRun.outcome = "success"

\* Number of places of a sequence that hold x.
Count(seq, x) == Cardinality({i \in 1..Len(seq) : seq[i] = x})

\* C9: packaging a non-empty list is fault tolerant per item. The zip.file calls made
\* are exactly one per item whose fetch and blob succeeded, under that item's name and
\* with that item's content, and none for a failed item; zip.generateAsync is called
\* exactly once, when every item has settled, failed ones included, and not before.
C9_PackagingToleratesFailures ==
    (zipPc # "idle" /\ Len(zipImages) >= 1) =>
        /\ \A img \in ZipInputs :
               Count(zipFiles, [name |-> img.name, blob |-> BlobOf(img.src)]) =
                   Cardinality({i \in 1..Len(zipImages) :
                                    zipImages[i] = img /\ fetchStatus[i] = "added"})
        /\ Len(zipFiles) = Count(fetchStatus, "added")
        /\ generateCalls = IF AllSettled(fetchStatus) THEN 1 ELSE 0

\* Of two items the fetch of the first failed and the second was added: the archive was
\* generated once, with the second item alone.
C9_Witness ==
    /\ Len(zipImages) = 2
    /\ fetchStatus = <<"failed", "added">>
    /\ zipFiles = <<[name |-> zipImages[2].name, blob |-> BlobOf(zipImages[2].src)]>>
    /\ zipPc = "generated"
    /\ generateCalls = 1

\* C10: downloadAllAsZip([]) issues no fetch, creates no JSZip object and makes no
\* generateAsync call.
C10_EmptyListIsNoOp ==
    (zipPc # "idle" /\ Len(zipImages) = 0) =>
        /\ fetchStatus = <<>>
        /\ zipObjects = 0
        /\ generateCalls = 0
        /\ zipFiles = <<>>
        /\ zipPc = "returned"

\* downloadAllAsZip([]) has returned.
C10_Witness ==
    /\ zipImages = <<>>
    /\ zipPc = "returned"

====
